---- MODULE Spec2Model ----
(***************************************************************************)
(* The executor of ComputeHorde: one session of run_executor.py.           *)
(*                                                                         *)
(* MinerClient holds the two one-shot gates of the handshake (initial_msg  *)
(* and full_payload); Command._executor_loop is the coroutine that waits   *)
(* for them, probes the host, prepares, runs the job and reports.  The     *)
(* loop is cut at its awaits: every action below is the code between two   *)
(* suspension points.  The handlers and the loop interleave freely.        *)
(*                                                                         *)
(* Python's None is the string "None" for string-valued fields and the     *)
(* empty tuple for exit_status and for a pending Future; a value v of      *)
(* those is the one-element tuple <<v>>.                                   *)
(***************************************************************************)
EXTENDS Integers, Sequences, FiniteSets, TLC

\* ------------------------------------------------------------ bounds
\* inbound messages delivered to handle_message in one session
MaxInbound == 2
\* the same, for a peer that repeats its messages
MaxRepeated == 3
\* largest size of one body chunk of the zip_url response
MaxChunk == 2
\* largest number of body chunks the response yields
MaxChunks == 2
\* the positive value of settings.VOLUME_MAX_SIZE_BYTES that is explored
VolumeCap == 2
\* job request events the validator side of the miner puts on the channel layer
MaxRelayed == 1
\* calls of handle_message that are in progress or over, when they overlap
MaxHandlers == 4
\* events the executor-facing consumers of the miner publish
MaxPublished == 2

None == "None"

\* job ids of the descriptors the peer sends, and of its payloads: a payload
\* carries the id of the session's descriptor or another one
JobUuids == {"A", "B"}
PayloadJobUuids == {"A"}

\* V0InitialJobRequest: job_uuid, base_docker_image_name, timeout_seconds
\* (timeout_seconds only sets when the wait of run_job expires)
InitialJobRequests ==
    [kind : {"V0InitialJobRequest"},
     job_uuid : JobUuids,
     base_docker_image_name : {None, "base"}]

Presets == {"none", "nvidia_all", "bogus"}

VolumeTypes == {"inline", "zip_url", "other"}

\* V0JobRequest: the fields run_job reads
JobRequests ==
    [kind : {"V0JobRequest"},
     job_uuid : PayloadJobUuids,
     docker_image_name : {None, "img"},
     raw_script : {None, "script"},
     docker_run_options_preset : Presets,
     volume_type : VolumeTypes,
     output_upload : BOOLEAN]

\* the payloads of a peer that repeats its messages: one per volume type
RepeatedJobRequests ==
    {r \in JobRequests : /\ r.docker_image_name = "img"
                         /\ r.raw_script = None
                         /\ r.docker_run_options_preset = "none"
                         /\ ~r.output_upload}

\* the truth value of an optional string: None and '' are false
bool(v) == v /= None /\ v /= ""

\* the job requests of the session that goes through the miner: a name, the
\* empty string or nothing as the image and as the script
RelayedJobRequests ==
    [kind : {"V0JobRequest"},
     job_uuid : PayloadJobUuids,
     docker_image_name : {None, "", "img"},
     raw_script : {None, "", "script"},
     docker_run_options_preset : {"none"},
     volume_type : {"inline"},
     output_upload : {FALSE}]

\* the payloads the executor's peer sends without the miner's validation:
\* those with no image and no script, and one with an image and a zip_url
UnrelayedJobRequests ==
    {r \in RelayedJobRequests : r.docker_image_name = None /\ ~bool(r.raw_script)}
    \cup {r \in RepeatedJobRequests : r.volume_type = "zip_url"}

\* exit codes a container may return
ExitCodes == {0, 1, 2}

\* what the container wrote to its stdout and to its stderr
Stdouts == {"out"}
Stderrs == {"err"}

\* the text of an exception that is not a JobError
ExcDetail == "exception detail"

VARIABLES
    job_uuid,        \* MinerClient.job_uuid
    initial_msg,     \* MinerClient.initial_msg: <<>> pending, <<msg>> done
    full_payload,    \* MinerClient.full_payload: <<>> pending, <<msg>> done
    received,        \* the number of messages handled, kind and job_uuid of the last
    deferred,        \* messages given to deferred_send_model, in order
    sent,            \* messages _executor_loop gave to send_model, in order
    volume_max,      \* settings.VOLUME_MAX_SIZE_BYTES
    pc,              \* where _executor_loop stands
    exc,             \* "", "caught" (line 465) or "propagated" (out of the loop)
    probe,           \* <<>> or what the probe container did
    pull,            \* <<>> or the exit status of docker pull
    workspace,       \* JobRunner.temp_dir: "none", "created", "removed", "left"
    cleaned,         \* number of calls of JobRunner.clean
    job_request,     \* the payload _executor_loop took from full_payload
    staging,         \* the zip_url download: in progress, or as a failure left it
    proc,            \* the job container process, see NoProcess
    run,             \* what run_job holds after the wait for the container
    upload,          \* "none", "ok" or the description of OutputUploadFailed
    result,          \* <<>> or <<JobResult>>
    relay,           \* the miner's channel layer, see NotRelayed
    output_volume,   \* <<>> or what run_job wrote to stdout.txt and stderr.txt
    tasks,           \* the calls of handle_message that overlap: message and place
    initial_msg_lock,   \* MinerClient.initial_msg_lock: 0 or the task that holds it
    full_payload_lock,  \* MinerClient.full_payload_lock: 0 or the task that holds it
    subdirs          \* the subdirectories of temp_dir that exist

vars == <<job_uuid, initial_msg, full_payload, received, deferred, sent,
          volume_max, pc, exc, probe, pull, workspace, cleaned, job_request,
          staging, proc, run, upload, result, relay, output_volume, tasks,
          initial_msg_lock, full_payload_lock, subdirs>>

\* the overlapping calls of handle_message and the two locks
lockvars == <<tasks, initial_msg_lock, full_payload_lock>>

loopvars == <<pc, exc, probe, pull, workspace, cleaned, job_request, staging,
              proc, run, upload, result, output_volume, subdirs>>

\* ------------------------------------------------------------ messages
\* executor_requests.GenericError(details=...)
GenericError(details) == [type |-> "GenericError", details |-> details]

V0ReadyRequest(uuid) == [type |-> "V0ReadyRequest", job_uuid |-> uuid]

V0FailedToPrepare(uuid) == [type |-> "V0FailedToPrepare", job_uuid |-> uuid]

V0MachineSpecsRequest(uuid, specs) ==
    [type |-> "V0MachineSpecsRequest", job_uuid |-> uuid, specs |-> specs]

V0FinishedRequest(uuid, out, err) ==
    [type |-> "V0FinishedRequest", job_uuid |-> uuid,
     docker_process_stdout |-> out, docker_process_stderr |-> err]

V0FailedRequest(uuid, status, timeout, out, err) ==
    [type |-> "V0FailedRequest", job_uuid |-> uuid,
     docker_process_exit_status |-> status, timeout |-> timeout,
     docker_process_stdout |-> out, docker_process_stderr |-> err]

\* f-string of handle_initial_job_request: names self.job_uuid and msg.job_uuid
DuplicateInitialDetails(first, then) ==
    [text |-> "Received duplicate initial job request", first |-> first, then |-> then]

\* f-string of handle_job_request, initial_msg pending
PayloadBeforeInitialDetails(then) ==
    [text |-> "Received job request before an initial job request", then |-> then]

\* f-string of handle_job_request, full_payload done
DuplicatePayloadDetails(first, then) ==
    [text |-> "Received duplicate full job payload request", first |-> first, then |-> then]

\* ------------------------------------------------------------ MinerClient
Done(future) == Len(future) = 1

\* AbstractMinerClient.send_model: the message goes to the channel
send_model(channel, model) == Append(channel, model)

\* AbstractMinerClient.deferred_send_model: the send is left to a task of its
\* own, which sends the message when the event loop runs it
deferred_send_model(queue, model) == Append(queue, model)

\* handle_message was called with msg
Received(msg) == [n |-> received.n + 1, kind |-> msg.kind, job_uuid |-> msg.job_uuid]

\* the process of create_subprocess_exec: state is "none", "running", "exited"
\* or "killed", returncode is <<>> until it exits, expired tells that wait_for
\* gave up waiting for it
NoProcess == [state |-> "none", returncode |-> <<>>, expired |-> FALSE]

\* no response yet, nothing received or written, nothing extracted
NotStaged ==
    [content_length |-> <<>>, bytes_received |-> 0, written |-> 0, chunks |-> 0,
     extracted |-> FALSE, raised |-> "ok"]

\* the archive was extracted into volume/; the response and the download file
\* are closed
Staged == [NotStaged EXCEPT !.extracted = TRUE]

\* the miner's channel layer: n counts the miner.job_request events, last is
\* <<>> or the last of them, passed tells that validate_event returned a
\* payload for it, stored that it was this payload that filled full_payload;
\* events are the events sent to the validator-interface groups, published
\* tells which send_executor_* call sent each of them, delivered counts the
\* events the layer has delivered and handled tells what the consumer of the
\* group did with each
NotRelayed ==
    [n |-> 0, last |-> <<>>, passed |-> FALSE, stored |-> FALSE,
     events |-> <<>>, published |-> <<>>, delivered |-> 0, handled |-> <<>>]

Init ==
    /\ job_uuid = None
    /\ initial_msg = <<>>
    /\ full_payload = <<>>
    /\ received = [n |-> 0, kind |-> None, job_uuid |-> None]
    /\ deferred = <<>>
    /\ sent = <<>>
    /\ volume_max \in {0, VolumeCap}
    /\ pc = "await_initial_msg"
    /\ exc = ""
    /\ probe = <<>>
    /\ pull = <<>>
    /\ workspace = "none"
    /\ cleaned = 0
    /\ job_request = <<>>
    /\ staging = NotStaged
    /\ proc = NoProcess
    /\ run = <<>>
    /\ upload = "none"
    /\ result = <<>>
    /\ relay = NotRelayed
    /\ output_volume = <<>>
    /\ tasks = <<>>
    /\ initial_msg_lock = 0
    /\ full_payload_lock = 0
    /\ subdirs = {}

\* handle_initial_job_request without the test of initial_msg.done()
handle_initial_job_request_overwriting(msg) ==
    /\ received' = Received(msg)
    /\ job_uuid' = msg.job_uuid
    /\ initial_msg' = <<msg>>
    /\ UNCHANGED <<deferred, full_payload>>

handle_initial_job_request(msg) ==
    /\ received' = Received(msg)
    /\ IF Done(initial_msg)
       THEN /\ deferred' = deferred_send_model(deferred,
                    GenericError(DuplicateInitialDetails(job_uuid, msg.job_uuid)))
            /\ UNCHANGED <<job_uuid, initial_msg>>
       ELSE /\ job_uuid' = msg.job_uuid
            /\ initial_msg' = <<msg>>
            /\ UNCHANGED deferred
    /\ UNCHANGED full_payload

\* handle_job_request without the test of full_payload.done()
handle_job_request_overwriting(msg) ==
    /\ received' = Received(msg)
    /\ IF ~Done(initial_msg)
       THEN /\ deferred' = deferred_send_model(deferred,
                    GenericError(PayloadBeforeInitialDetails(msg.job_uuid)))
            /\ UNCHANGED full_payload
       ELSE /\ full_payload' = <<msg>>
            /\ UNCHANGED deferred
    /\ UNCHANGED <<job_uuid, initial_msg>>

\* handle_job_request without the test of initial_msg.done()
handle_job_request_unordered(msg) ==
    /\ received' = Received(msg)
    /\ IF Done(full_payload)
       THEN /\ deferred' = deferred_send_model(deferred,
                    GenericError(DuplicatePayloadDetails(job_uuid, msg.job_uuid)))
            /\ UNCHANGED full_payload
       ELSE /\ full_payload' = <<msg>>
            /\ UNCHANGED deferred
    /\ UNCHANGED <<job_uuid, initial_msg>>

handle_job_request(msg) ==
    /\ received' = Received(msg)
    /\ IF ~Done(initial_msg)
       THEN /\ deferred' = deferred_send_model(deferred,
                    GenericError(PayloadBeforeInitialDetails(msg.job_uuid)))
            /\ UNCHANGED full_payload
       ELSE IF Done(full_payload)
       THEN /\ deferred' = deferred_send_model(deferred,
                    GenericError(DuplicatePayloadDetails(job_uuid, msg.job_uuid)))
            /\ UNCHANGED full_payload
       ELSE /\ full_payload' = <<msg>>
            /\ UNCHANGED deferred
    /\ UNCHANGED <<job_uuid, initial_msg>>

\* MinerClient.handle_message, for the two request types it accepts
Handle(requests, limit) ==
    /\ received.n < limit
    /\ \/ \E msg \in InitialJobRequests : handle_initial_job_request(msg)
       \/ \E msg \in requests : handle_job_request(msg)
    /\ UNCHANGED <<sent, volume_max, relay>>
    /\ UNCHANGED lockvars
    /\ UNCHANGED loopvars

\* the peer sends any payload
handle_message == Handle(JobRequests, MaxInbound)

\* the peer repeats its messages
handle_repeated_message == Handle(RepeatedJobRequests, MaxRepeated)

\* ------------------------------------------------------------ overlapping handlers
\* the messages of the overlapping calls: two descriptors, two payloads
ConcurrentRequests ==
    {m \in InitialJobRequests : m.base_docker_image_name = None}
    \cup {r \in RepeatedJobRequests : r.volume_type /= "other"}

\* handle_message is called with msg while earlier calls are suspended; the
\* call stands before the async with of its handler
deliver ==
    /\ Len(tasks) < MaxHandlers
    /\ \E msg \in ConcurrentRequests :
          tasks' = Append(tasks, [msg |-> msg, at |-> "acquire"])
    /\ UNCHANGED <<job_uuid, initial_msg, full_payload, received, deferred, sent,
                   volume_max, relay, initial_msg_lock, full_payload_lock>>
    /\ UNCHANGED loopvars

\* lines 96-104: the lock is taken, the body has no await, the lock is
\* released at the end of the async with
handle_initial_job_request_task(i) ==
    /\ tasks[i].msg.kind = "V0InitialJobRequest"
    /\ tasks[i].at = "acquire"
    /\ initial_msg_lock = 0
    /\ handle_initial_job_request(tasks[i].msg)
    /\ tasks' = [tasks EXCEPT ![i].at = "done"]
    /\ UNCHANGED <<initial_msg_lock, full_payload_lock>>

\* lines 107-120 entered whoever holds full_payload_lock
handle_job_request_task_unlocked(i) ==
    /\ tasks[i].msg.kind = "V0JobRequest"
    /\ tasks[i].at = "acquire"
    /\ handle_job_request(tasks[i].msg)
    /\ IF deferred' /= deferred
       THEN /\ full_payload_lock' = i
            /\ tasks' = [tasks EXCEPT ![i].at = "deferred_send_model"]
       ELSE /\ tasks' = [tasks EXCEPT ![i].at = "done"]
            /\ UNCHANGED full_payload_lock
    /\ UNCHANGED initial_msg_lock

\* lines 107-120 up to the first await: the lock is taken; a refused payload
\* leaves the call at await self.deferred_send_model(...) with the lock held,
\* an accepted one is stored and the lock released
handle_job_request_task(i) ==
    /\ tasks[i].msg.kind = "V0JobRequest"
    /\ tasks[i].at = "acquire"
    /\ full_payload_lock = 0
    /\ handle_job_request(tasks[i].msg)
    /\ IF deferred' /= deferred
       THEN /\ full_payload_lock' = i
            /\ tasks' = [tasks EXCEPT ![i].at = "deferred_send_model"]
       ELSE /\ tasks' = [tasks EXCEPT ![i].at = "done"]
            /\ UNCHANGED full_payload_lock
    /\ UNCHANGED initial_msg_lock

\* lines 112 and 118: the await is over, return releases the lock
handle_job_request_return(i) ==
    /\ tasks[i].at = "deferred_send_model"
    /\ tasks' = [tasks EXCEPT ![i].at = "done"]
    /\ full_payload_lock' = IF full_payload_lock = i THEN 0 ELSE full_payload_lock
    /\ UNCHANGED <<job_uuid, initial_msg, full_payload, received, deferred, initial_msg_lock>>

\* one of the overlapping calls runs to its next await
resume ==
    /\ \E i \in 1..Len(tasks) :
          \/ handle_initial_job_request_task(i)
          \/ handle_job_request_task(i)
          \/ handle_job_request_return(i)
    /\ UNCHANGED <<sent, volume_max, relay>>
    /\ UNCHANGED loopvars

NextConcurrent ==
    \/ deliver
    \/ resume

\* the handshake alone, the calls of handle_message overlapping
SpecConcurrent == Init /\ [][NextConcurrent]_vars

\* ------------------------------------------------------------ the miner
\* JobRequest.validate accepting every event
validate_anything(values) == TRUE

\* JobRequest.validate of layer_utils.py: TRUE when the values are accepted,
\* FALSE when it raises ValueError
validate(values) == bool(values.docker_image_name) \/ bool(values.raw_script)

\* BaseMixin.validate_event for JobRequest: <<payload>>, or <<>> (None) when
\* the model class raised
validate_event(event) == IF validate(event) THEN <<event>> ELSE <<>>

\* the miner's _miner_job_request: the payload goes to the executor as a
\* V0JobRequest and the executor handles it
relay_job_request(payload) == handle_job_request(payload)

\* ExecutorInterfaceMixin.miner_job_request: a job request event of the
\* validator side; it is passed on only when validate_event returns a payload
miner_job_request ==
    /\ relay.n < MaxRelayed
    /\ \E event \in RelayedJobRequests :
          LET payload == validate_event(event) IN
          IF payload /= <<>>
          THEN /\ relay_job_request(payload[1])
               /\ relay' = [relay EXCEPT !.n = @ + 1, !.last = <<event>>,
                                         !.passed = TRUE,
                                         !.stored = @ \/ full_payload' /= full_payload]
          ELSE /\ relay' = [relay EXCEPT !.n = @ + 1, !.last = <<event>>,
                                         !.passed = FALSE]
               /\ UNCHANGED <<job_uuid, initial_msg, full_payload, received, deferred>>
    /\ UNCHANGED <<sent, volume_max>>
    /\ UNCHANGED lockvars
    /\ UNCHANGED loopvars

\* the executor's peer sends a payload of the same kind by itself
handle_unrelayed_message == Handle(UnrelayedJobRequests, MaxInbound)

\* ------------------------------------------------------------ the events of the executor
\* the tokens of the executors connected to the miner
Tokens == {"t1", "t2"}

\* what the executors report: job ids, streams, exit statuses
LayerJobUuids == {"A"}
LayerStreams == {"", "out"}
LayerExitStatuses == {<<>>, <<1>>}

\* ValidatorInterfaceMixin.group_name
ValidatorInterfaceMixin_group_name(executor_token) ==
    "validator_interface_" \o executor_token

\* the model classes of the events, as the dict of their fields
ExecutorReady(executor_token) == [executor_token |-> executor_token]
ExecutorFailedToPrepare(executor_token) == [executor_token |-> executor_token]
ExecutorSpecs(uuid, specs) == [job_uuid |-> uuid, specs |-> specs]
ExecutorFinished(uuid, stdout, stderr) ==
    [job_uuid |-> uuid, docker_process_stdout |-> stdout, docker_process_stderr |-> stderr]
ExecutorFailed(uuid, stdout, stderr, exit_status) ==
    [job_uuid |-> uuid, docker_process_exit_status |-> exit_status,
     docker_process_stdout |-> stdout, docker_process_stderr |-> stderr]

\* the fields a model class requires of the event it is built from; the
\* other keys of the event, 'type' among them, are ignored
ModelFields(models_class) ==
    CASE models_class = "ExecutorReady" -> {"executor_token"}
      [] models_class = "ExecutorFailedToPrepare" -> {"executor_token"}
      [] models_class = "ExecutorSpecs" -> {"job_uuid", "specs"}
      [] models_class = "ExecutorFinished" ->
            {"job_uuid", "docker_process_stdout", "docker_process_stderr"}
      [] models_class = "ExecutorFailed" ->
            {"job_uuid", "docker_process_exit_status", "docker_process_stdout",
             "docker_process_stderr"}

\* channel_layer.group_send: the event is in the layer, for the group
group_send(layer, group_name, event) ==
    Append(layer, [group |-> group_name, event |-> event])

\* {'type': ..., **model.dict()}
TypedEvent(type, fields) ==
    [k \in {"type"} \cup DOMAIN fields |-> IF k = "type" THEN type ELSE fields[k]]

\* ExecutorInterfaceMixin.send_executor_ready
send_executor_ready(layer, executor_token) ==
    group_send(layer, ValidatorInterfaceMixin_group_name(executor_token),
               TypedEvent("executor.ready", ExecutorReady(executor_token)))

\* ExecutorInterfaceMixin.send_executor_failed_to_prepare
send_executor_failed_to_prepare(layer, executor_token) ==
    group_send(layer, ValidatorInterfaceMixin_group_name(executor_token),
               TypedEvent("executor.failed_to_prepare",
                          ExecutorFailedToPrepare(executor_token)))

\* ExecutorInterfaceMixin.send_executor_specs
send_executor_specs(layer, uuid, executor_token, specs) ==
    group_send(layer, ValidatorInterfaceMixin_group_name(executor_token),
               TypedEvent("executor.specs", ExecutorSpecs(uuid, specs)))

\* ExecutorInterfaceMixin.send_executor_finished
send_executor_finished(layer, uuid, executor_token, stdout, stderr) ==
    group_send(layer, ValidatorInterfaceMixin_group_name(executor_token),
               TypedEvent("executor.finished", ExecutorFinished(uuid, stdout, stderr)))

\* ExecutorInterfaceMixin.send_executor_failed: the type is that of line 218
send_executor_failed(layer, uuid, executor_token, stdout, stderr, exit_status) ==
    group_send(layer, ValidatorInterfaceMixin_group_name(executor_token),
               TypedEvent("executor.finished",
                          ExecutorFailed(uuid, stdout, stderr, exit_status)))

\* the executor-facing consumer of a token publishes what its executor reported
publish ==
    /\ Len(relay.events) < MaxPublished
    /\ \E executor_token \in Tokens :
          \/ relay' = [relay EXCEPT
                  !.events = send_executor_ready(@, executor_token),
                  !.published = Append(@, [kind |-> "ready", token |-> executor_token])]
          \/ relay' = [relay EXCEPT
                  !.events = send_executor_failed_to_prepare(@, executor_token),
                  !.published = Append(@, [kind |-> "failed_to_prepare",
                                           token |-> executor_token])]
          \/ \E uuid \in LayerJobUuids :
                relay' = [relay EXCEPT
                  !.events = send_executor_specs(@, uuid, executor_token, "specs"),
                  !.published = Append(@, [kind |-> "specs", token |-> executor_token])]
          \/ \E uuid \in LayerJobUuids, stdout \in LayerStreams :
                relay' = [relay EXCEPT
                  !.events = send_executor_finished(@, uuid, executor_token, stdout, ""),
                  !.published = Append(@, [kind |-> "finished", token |-> executor_token])]
          \/ \E uuid \in LayerJobUuids, stdout \in LayerStreams,
                 exit_status \in LayerExitStatuses :
                relay' = [relay EXCEPT
                  !.events = send_executor_failed(@, uuid, executor_token, stdout, "",
                                                  exit_status),
                  !.published = Append(@, [kind |-> "failed", token |-> executor_token])]
    /\ UNCHANGED <<job_uuid, initial_msg, full_payload, received, deferred, sent,
                   volume_max>>
    /\ UNCHANGED lockvars
    /\ UNCHANGED loopvars

\* BaseMixin.validate_event for the model classes of the events: <<payload>>,
\* or <<>> (None) when building the model raised
validate_event_as(models_class, event) ==
    IF ModelFields(models_class) \subseteq DOMAIN event
    THEN <<[k \in ModelFields(models_class) |-> event[k]]>>
    ELSE <<>>

\* a handler of ValidatorInterfaceMixin: the abstract method it calls with
\* the payload, or nothing when validate_event returned None
Handler(models_class, method, event) ==
    LET payload == validate_event_as(models_class, event) IN
    IF payload /= <<>> THEN <<[method |-> method, msg |-> payload[1]]>> ELSE <<>>

executor_ready(event) == Handler("ExecutorReady", "_executor_ready", event)
executor_failed_to_prepare(event) ==
    Handler("ExecutorFailedToPrepare", "_executor_failed_to_prepare", event)
executor_finished(event) == Handler("ExecutorFinished", "_executor_finished", event)
executor_specs(event) == Handler("ExecutorSpecs", "_executor_specs", event)
executor_failed(event) == Handler("ExecutorFailed", "_executor_failed", event)

RECURSIVE get_handler_name(_)
\* the name of the method a consumer handles an event type with: the type
\* with every '.' replaced by '_'
get_handler_name(type) ==
    IF type = "" THEN ""
    ELSE LET head == SubSeq(type, 1, 1) IN
         (IF head = "." THEN "_" ELSE head) \o get_handler_name(SubSeq(type, 2, Len(type)))

\* the consumer calls its method of the name
call_handler(name, event) ==
    CASE name = "executor_ready" -> executor_ready(event)
      [] name = "executor_failed_to_prepare" -> executor_failed_to_prepare(event)
      [] name = "executor_finished" -> executor_finished(event)
      [] name = "executor_specs" -> executor_specs(event)
      [] name = "executor_failed" -> executor_failed(event)

\* the layer delivers its next event to the validator-facing consumer that
\* joined the group of the event, and the consumer handles it
dispatch ==
    /\ relay.delivered < Len(relay.events)
    /\ LET i == relay.delivered + 1
           sending == relay.events[i]
           name == get_handler_name(sending.event.type) IN
       \E consumer \in Tokens :
          /\ ValidatorInterfaceMixin_group_name(consumer) = sending.group
          /\ relay' = [relay EXCEPT
                  !.delivered = i,
                  !.handled = Append(@, [of |-> i, consumer |-> consumer,
                                         handler |-> name,
                                         calls |-> call_handler(name, sending.event)])]
    /\ UNCHANGED <<job_uuid, initial_msg, full_payload, received, deferred, sent,
                   volume_max>>
    /\ UNCHANGED lockvars
    /\ UNCHANGED loopvars

NextLayer ==
    \/ publish
    \/ dispatch

\* the events of the executors on their way to the validator-facing consumers
SpecLayer == Init /\ [][NextLayer]_vars

\* ------------------------------------------------------------ _executor_loop
\* initial_message of _executor_loop
initial_message == initial_msg[1]

\* a step of the loop leaves the handshake and the settings alone
Handshake ==
    UNCHANGED <<job_uuid, initial_msg, full_payload, received, deferred, volume_max, relay,
                tasks, initial_msg_lock, full_payload_lock>>

\* a step of the loop other than the end of run_job writes no output file
LoopStep == Handshake /\ UNCHANGED <<output_volume, subdirs>>

\* line 437: await self.miner_client.initial_msg
await_initial_msg ==
    /\ pc = "await_initial_msg"
    /\ Done(initial_msg)
    /\ pc' = "cve_check"
    /\ UNCHANGED <<sent, exc, probe, pull, workspace, cleaned,
                   job_request, staging, proc, run, upload, result>>
    /\ LoopStep

\* what the probe container did
Probes == [timed_out : BOOLEAN, returncode : {0, 1}, marker : BOOLEAN]

\* is_system_safe_for_cve_2022_0492 without the test of the marker
is_system_safe_whatever_it_printed(process) ==
    IF process.timed_out THEN FALSE
    ELSE IF process.returncode /= 0 THEN FALSE
    ELSE TRUE

is_system_safe_for_cve_2022_0492(process) ==
    IF process.timed_out THEN FALSE
    ELSE IF process.returncode /= 0 THEN FALSE
    ELSE IF ~process.marker THEN FALSE
    ELSE TRUE

\* the probe process when is_system_safe_for_cve_2022_0492 returns: it exited
\* and communicate() returned, or the wait expired (lines 418-420 return
\* without process.kill()) and it runs on
probe_process(did) ==
    [timed_out |-> did.timed_out, returncode |-> did.returncode, marker |-> did.marker,
     state |-> IF did.timed_out THEN "running" ELSE "exited"]

\* line 439: the probe; an exception of it is outside the try of the loop
cve_check ==
    /\ pc = "cve_check"
    /\ \/ \E did \in Probes :
             /\ probe' = <<probe_process(did)>>
             /\ pc' = (IF is_system_safe_for_cve_2022_0492(did)
                       THEN "new_job_runner" ELSE "unsafe")
             /\ UNCHANGED exc
       \/ pc' = "done" /\ exc' = "propagated" /\ UNCHANGED probe
    /\ UNCHANGED <<sent, pull, workspace, cleaned, job_request, staging,
                   proc, run, upload, result>>
    /\ LoopStep

\* MinerClient.send_failed_to_prepare
send_failed_to_prepare(channel) == send_model(channel, V0FailedToPrepare(job_uuid))

\* lines 440-441: the probe failed
unsafe ==
    /\ pc = "unsafe"
    /\ sent' = send_failed_to_prepare(sent)
    /\ pc' = "done"
    /\ \/ UNCHANGED exc
       \/ exc' = "propagated"
    /\ UNCHANGED <<probe, pull, workspace, cleaned, job_request,
                   staging, proc, run, upload, result>>
    /\ LoopStep

\* line 443, JobRunner.__init__: tempfile.mkdtemp(), outside the try
new_job_runner ==
    /\ pc = "new_job_runner"
    /\ \/ workspace' = "created" /\ pc' = "prepare" /\ UNCHANGED exc
       \/ pc' = "done" /\ exc' = "propagated" /\ UNCHANGED workspace
    /\ UNCHANGED <<sent, probe, pull, cleaned, job_request,
                   staging, proc, run, upload, result>>
    /\ LoopStep

\* JobRunner.prepare: "ok" or "JobError", by the exit status of docker pull
prepare(initial, pull_returncode) ==
    IF initial.base_docker_image_name /= None /\ pull_returncode /= 0
    THEN "JobError"
    ELSE "ok"

\* lines 188-189: the two mkdir of prepare
mkdirs(existing) == existing \cup {"volume", "output"}

\* lines 446-450: prepare, its JobError, any other exception of it (raised by
\* a mkdir or, after them, by the pull)
do_prepare ==
    /\ pc = "prepare"
    /\ \/ /\ initial_message.base_docker_image_name = None
          /\ subdirs' = mkdirs(subdirs)
          /\ pc' = (IF prepare(initial_message, 0) = "ok"
                    THEN "send_ready" ELSE "failed_to_prepare")
          /\ UNCHANGED pull
       \/ /\ initial_message.base_docker_image_name /= None
          /\ subdirs' = mkdirs(subdirs)
          /\ \E returncode \in {0, 1} :
                /\ pull' = <<returncode>>
                /\ pc' = (IF prepare(initial_message, returncode) = "ok"
                          THEN "send_ready" ELSE "failed_to_prepare")
       \/ /\ pc' = "except"
          /\ subdirs' \in {subdirs, mkdirs(subdirs)}
          /\ UNCHANGED pull
    /\ UNCHANGED <<sent, exc, probe, workspace, cleaned, job_request, staging,
                   proc, run, upload, result>>
    /\ Handshake
    /\ UNCHANGED output_volume

\* line 449 without the return of line 450
failed_to_prepare_without_return ==
    /\ pc = "failed_to_prepare"
    /\ sent' = Append(sent, V0FailedToPrepare(job_uuid))
    /\ pc' \in {"send_ready", "except"}
    /\ UNCHANGED <<exc, probe, pull, workspace, cleaned, job_request, staging,
                   proc, run, upload, result>>
    /\ UNCHANGED <<job_uuid, initial_msg, full_payload, received, deferred, volume_max,
                   relay, output_volume, tasks, initial_msg_lock, full_payload_lock,
                   subdirs>>

\* line 449: inside the try, so an exception of the send reaches line 465
failed_to_prepare ==
    /\ pc = "failed_to_prepare"
    /\ sent' = send_failed_to_prepare(sent)
    /\ pc' \in {"clean", "except"}
    /\ UNCHANGED <<exc, probe, pull, workspace, cleaned,
                   job_request, staging, proc, run, upload, result>>
    /\ LoopStep

\* MinerClient.send_ready
send_ready(channel) == send_model(channel, V0ReadyRequest(job_uuid))

\* line 454
do_send_ready ==
    /\ pc = "send_ready"
    /\ sent' = send_ready(sent)
    /\ pc' \in {"await_full_payload", "except"}
    /\ UNCHANGED <<exc, probe, pull, workspace, cleaned,
                   job_request, staging, proc, run, upload, result>>
    /\ LoopStep

\* the payload taken as soon as it is there, before Ready is sent
await_full_payload_early ==
    /\ pc \in {"send_ready", "await_full_payload"}
    /\ Done(full_payload)
    /\ job_request' = full_payload
    /\ pc' = "run_job"
    /\ UNCHANGED <<sent, exc, probe, pull, workspace,
                   cleaned, staging, proc, run, upload, result>>
    /\ UNCHANGED <<job_uuid, initial_msg, full_payload, received, deferred, volume_max,
                   relay, output_volume, tasks, initial_msg_lock, full_payload_lock,
                   subdirs>>

\* line 457: await self.miner_client.full_payload
await_full_payload ==
    /\ pc = "await_full_payload"
    /\ Done(full_payload)
    /\ job_request' = full_payload
    /\ pc' = "run_job"
    /\ UNCHANGED <<sent, exc, probe, pull, workspace,
                   cleaned, staging, proc, run, upload, result>>
    /\ LoopStep

\* ------------------------------------------------------------ JobRunner.run_job
MAX_RESULT_SIZE_IN_RESPONSE == 1000
TRUNCATED_RESPONSE_PREFIX_LEN == 100
TRUNCATED_RESPONSE_SUFFIX_LEN == 100

\* truncate without the suffix
truncate_to_prefix(v) ==
    IF Len(v) > MAX_RESULT_SIZE_IN_RESPONSE
    THEN SubSeq(v, 1, TRUNCATED_RESPONSE_PREFIX_LEN) \o " ... "
    ELSE v

truncate(v) ==
    IF Len(v) > MAX_RESULT_SIZE_IN_RESPONSE
    THEN SubSeq(v, 1, TRUNCATED_RESPONSE_PREFIX_LEN) \o " ... "
         \o SubSeq(v, Len(v) - TRUNCATED_RESPONSE_SUFFIX_LEN + 1, Len(v))
    ELSE v

JobResult(success, exit_status, timeout, stdout, stderr, specs) ==
    [success |-> success, exit_status |-> exit_status, timeout |-> timeout,
     stdout |-> stdout, stderr |-> stderr, specs |-> specs]

\* what a step of the staging raised, or that it returned
Returned == [kind |-> "ok"]
JobError(description) == [kind |-> "JobError", description |-> description]
TimeoutError == [kind |-> "TimeoutError"]
OtherException == [kind |-> "Exception", detail |-> ExcDetail]
NotImplementedError == [kind |-> "NotImplementedError", detail |-> "Unsupported volume_type"]

\* preset_to_docker_run_args with no arguments for a preset it does not know
preset_to_docker_run_args_default(preset) ==
    IF preset = "nvidia_all"
    THEN [kind |-> "ok", args |-> <<"--runtime=nvidia", "--gpus", "all">>]
    ELSE [kind |-> "ok", args |-> <<>>]

\* RunConfigManager.preset_to_docker_run_args: the arguments, or the JobError
preset_to_docker_run_args(preset) ==
    IF preset = "none" THEN [kind |-> "ok", args |-> <<>>]
    ELSE IF preset = "nvidia_all"
    THEN [kind |-> "ok", args |-> <<"--runtime=nvidia", "--gpus", "all">>]
    ELSE JobError("Invalid preset: " \o preset)

\* the size test with its comparison turned round
too_large_reversed(max_size, size) == 0 < max_size /\ size < max_size

\* the size test of lines 362 and 368
too_large(max_size, size) == 0 < max_size /\ max_size < size

\* unpack_volume passing the text of the exception on
unpack_volume_leaking(raised) ==
    IF raised.kind = "ok" THEN raised
    ELSE IF raised.kind = "JobError" THEN raised
    ELSE IF raised.kind = "TimeoutError"
    THEN [kind |-> "JobError", description |-> "Input volume downloading took too long"]
    ELSE [kind |-> "JobError", description |-> raised.detail]

\* unpack_volume with a JobError of its own for NotImplementedError
unpack_volume_unsupported(raised) ==
    IF raised.kind = "ok" THEN raised
    ELSE IF raised.kind = "JobError" THEN raised
    ELSE IF raised.kind = "TimeoutError"
    THEN [kind |-> "JobError", description |-> "Input volume downloading took too long"]
    ELSE IF raised.kind = "NotImplementedError"
    THEN [kind |-> "JobError", description |-> raised.detail]
    ELSE [kind |-> "JobError",
          description |-> "Unknown error happened while downloading input volume"]

\* JobRunner.unpack_volume: what _unpack_volume raised becomes a JobError
unpack_volume(raised) ==
    IF raised.kind = "ok" THEN raised
    ELSE IF raised.kind = "JobError" THEN raised
    ELSE IF raised.kind = "TimeoutError"
    THEN JobError("Input volume downloading took too long")
    ELSE JobError("Unknown error happened while downloading input volume")

\* lines 212-219: the JobResult of a JobError
job_error_result(description) ==
    JobResult(FALSE, <<>>, FALSE, description, "", None)

\* _unpack_volume, with the download at `download`, returns or raises at an
\* await: run_job goes on, or returns the JobResult of the JobError
StagingEnds(download, raised) ==
    LET outcome == unpack_volume(raised) IN
    IF outcome.kind = "ok"
    THEN /\ pc' = "launch"
         /\ staging' = download
         /\ UNCHANGED result
    ELSE /\ pc' = "report"
         /\ staging' = [download EXCEPT !.raised = raised.kind]
         /\ result' = <<job_error_result(outcome.description)>>

\* lines 208-211 and 344-355: the preset, then _unpack_volume up to its first await
run_job ==
    /\ pc = "run_job"
    /\ LET req == job_request[1]
           options == preset_to_docker_run_args(req.docker_run_options_preset) IN
       IF options.kind = "JobError"
       THEN /\ result' = <<job_error_result(options.description)>>
            /\ pc' = "report"
            /\ UNCHANGED staging
       ELSE IF req.volume_type = "inline"
       THEN \/ staging' = Staged /\ pc' = "chmod" /\ UNCHANGED result
            \/ StagingEnds(staging, OtherException)
       ELSE IF req.volume_type = "zip_url"
       THEN pc' = "stream_open" /\ UNCHANGED <<staging, result>>
       ELSE StagingEnds(staging, NotImplementedError)
    /\ UNCHANGED <<sent, exc, probe, pull, workspace, cleaned, job_request,
                   proc, run, upload>>
    /\ LoopStep

\* the Content-Length header of the response: absent, or a number
ContentLengths == {<<>>} \cup {<<n>> : n \in 0..(MaxChunk * MaxChunks)}

\* lines 359-363: the response arrives, the early size check
stream_open ==
    /\ pc = "stream_open"
    /\ \/ \E content_length \in ContentLengths :
             LET response == [staging EXCEPT !.content_length = content_length] IN
             IF content_length /= <<>> /\ too_large(volume_max, content_length[1])
             THEN StagingEnds(response, JobError("Input volume too large"))
             ELSE pc' = "stream" /\ staging' = response /\ UNCHANGED result
       \/ \E raised \in {TimeoutError, OtherException} : StagingEnds(staging, raised)
    /\ UNCHANGED <<sent, exc, probe, pull, workspace, cleaned, job_request,
                   proc, run, upload>>
    /\ LoopStep

\* the loop of lines 366-370 with the write before the size test
stream_writing_first ==
    /\ pc = "stream"
    /\ \/ /\ staging.chunks < MaxChunks
          /\ \E n \in 1..MaxChunk :
                LET bytes_received == staging.bytes_received + n
                    read == [staging EXCEPT !.chunks = @ + 1,
                                            !.bytes_received = bytes_received,
                                            !.written = @ + n] IN
                IF 0 < volume_max /\ volume_max < bytes_received
                THEN StagingEnds(read, JobError("Input volume too large"))
                ELSE /\ staging' = read
                     /\ pc' = "stream"
                     /\ UNCHANGED result
       \/ staging' = Staged /\ pc' = "chmod" /\ UNCHANGED result
       \/ \E raised \in {TimeoutError, OtherException} : StagingEnds(staging, raised)
    /\ UNCHANGED <<sent, exc, probe, pull, workspace, cleaned, job_request,
                   proc, run, upload>>
    /\ UNCHANGED <<job_uuid, initial_msg, full_payload, received, deferred, volume_max,
                   relay, output_volume, tasks, initial_msg_lock, full_payload_lock,
                   subdirs>>

\* lines 365-373: one chunk of the body, or its end and the extraction
stream ==
    /\ pc = "stream"
    /\ \/ /\ staging.chunks < MaxChunks
          /\ \E n \in 1..MaxChunk :
                LET bytes_received == staging.bytes_received + n
                    read == [staging EXCEPT !.chunks = @ + 1,
                                            !.bytes_received = bytes_received] IN
                IF too_large(volume_max, bytes_received)
                THEN StagingEnds(read, JobError("Input volume too large"))
                ELSE /\ staging' = [read EXCEPT !.written = @ + n]
                     /\ pc' = "stream"
                     /\ UNCHANGED result
       \/ staging' = Staged /\ pc' = "chmod" /\ UNCHANGED result
       \/ \E raised \in {TimeoutError, OtherException} : StagingEnds(staging, raised)
    /\ UNCHANGED <<sent, exc, probe, pull, workspace, cleaned, job_request,
                   proc, run, upload>>
    /\ LoopStep

\* lines 377-378: chmod -R 777, asserted to exit 0
chmod ==
    /\ pc = "chmod"
    /\ \E raised \in {Returned, TimeoutError, OtherException} :
          StagingEnds(staging, raised)
    /\ UNCHANGED <<sent, exc, probe, pull, workspace, cleaned, job_request,
                   proc, run, upload>>
    /\ LoopStep

\* RunConfigManager.preset_to_image_for_raw_script
preset_to_image_for_raw_script(preset) == "python:3.11-slim"

\* lines 221-227: the image of the docker run command, None when there is none
docker_image(req) ==
    IF bool(req.raw_script) /\ req.docker_image_name = None
    THEN preset_to_image_for_raw_script(req.docker_run_options_preset)
    ELSE req.docker_image_name

\* lines 244-249: the three -v flags of docker run; docker makes the host
\* directory of a bind mount when it is missing
bind_mounts(existing) == existing \cup {"volume", "output", "specs"}

\* lines 221-258: the command is built and the container process created;
\* a None in the argument list is a TypeError of create_subprocess_exec
launch ==
    /\ pc = "launch"
    /\ IF docker_image(job_request[1]) = None
       THEN pc' = "except" /\ UNCHANGED <<proc, subdirs>>
       ELSE \/ /\ proc' = [proc EXCEPT !.state = "running"]
               /\ subdirs' = bind_mounts(subdirs)
               /\ pc' = "communicate"
            \/ pc' = "except" /\ UNCHANGED <<proc, subdirs>>
    /\ UNCHANGED <<sent, exc, probe, pull, workspace,
                   cleaned, job_request, staging, run, upload, result>>
    /\ Handshake
    /\ UNCHANGED output_volume

\* the process is left as it is
kill_missing(process) == process

\* process.kill()
kill(process) == [process EXCEPT !.state = "killed"]

\* lines 265-272 with the timeout flag left False
timed_out_unflagged(stdout, stderr) ==
    [exit_status |-> <<>>, timeout |-> FALSE, stdout |-> stdout, stderr |-> stderr]

\* lines 265-272: the wait expired
timed_out(stdout, stderr) ==
    [exit_status |-> <<>>, timeout |-> TRUE, stdout |-> stdout, stderr |-> stderr]

\* the exit status reduced to 0 or 1
completed_as_flag(returncode, stdout, stderr) ==
    [exit_status |-> <<IF returncode = 0 THEN 0 ELSE 1>>, timeout |-> FALSE,
     stdout |-> stdout, stderr |-> stderr]

\* lines 273-277: the process ended in time
completed(returncode, stdout, stderr) ==
    [exit_status |-> <<returncode>>, timeout |-> FALSE, stdout |-> stdout, stderr |-> stderr]

\* lines 260-277 as process.communicate() with no wait_for around it: a
\* process that does not exit is waited for without end
communicate_without_timeout ==
    /\ pc = "communicate"
    /\ \/ /\ \E stdout \in Stdouts, stderr \in Stderrs, returncode \in ExitCodes :
                /\ proc' = [proc EXCEPT !.state = "exited",
                                        !.returncode = <<returncode>>]
                /\ run' = <<completed(returncode, stdout, stderr)>>
          /\ pc' = "finish_run"
       \/ pc' = "communicate_pending" /\ UNCHANGED <<proc, run>>
    /\ UNCHANGED <<sent, exc, probe, pull, workspace,
                   cleaned, job_request, staging, upload, result>>
    /\ LoopStep

\* lines 260-277: wait_for(process.communicate(), timeout_seconds)
communicate ==
    /\ pc = "communicate"
    /\ \E stdout \in Stdouts, stderr \in Stderrs :
          \/ \E returncode \in ExitCodes :
                /\ proc' = [proc EXCEPT !.state = "exited",
                                        !.returncode = <<returncode>>]
                /\ run' = <<completed(returncode, stdout, stderr)>>
          \/ /\ proc' = kill([proc EXCEPT !.expired = TRUE])
             /\ run' = <<timed_out(stdout, stderr)>>
    /\ pc' = "finish_run"
    /\ UNCHANGED <<sent, exc, probe, pull, workspace,
                   cleaned, job_request, staging, upload, result>>
    /\ LoopStep

\* the JobResult taken from the container alone, whatever the upload did
finish_ignoring_upload(ran, specs, uploaded) ==
    JobResult(ran.exit_status = <<0>>, ran.exit_status, ran.timeout,
              truncate(ran.stdout), truncate(ran.stderr), specs)

\* lines 279-322: specs, truncation, the upload and the JobResult; uploaded is
\* "none" (not requested), "ok" or the description of OutputUploadFailed
finish(ran, specs, uploaded) ==
    LET success == ran.exit_status = <<0>> IN
    IF uploaded \in {"none", "ok"}
    THEN JobResult(success, ran.exit_status, ran.timeout,
                   truncate(ran.stdout), truncate(ran.stderr), specs)
    ELSE JobResult(FALSE, ran.exit_status, ran.timeout, uploaded, "", specs)

UploadFailedDescription == "Uploading output failed"

\* lines 285-291: stdout.txt and stderr.txt of the output directory
persist(ran) == [stdout_txt |-> ran.stdout, stderr_txt |-> ran.stderr]

\* the end of run_job; an exception leaves it before the files are written
\* (reading specs.json) or after (the upload)
finish_run ==
    /\ pc = "finish_run"
    /\ \/ \E specs \in {None, "specs"},
             uploaded \in IF job_request[1].output_upload
                          THEN {"ok", UploadFailedDescription} ELSE {"none"} :
             /\ output_volume' = <<persist(run[1])>>
             /\ upload' = uploaded
             /\ result' = <<finish(run[1], specs, uploaded)>>
             /\ pc' = "report"
       \/ pc' = "except" /\ UNCHANGED <<upload, result, output_volume>>
       \/ /\ job_request[1].output_upload
          /\ output_volume' = <<persist(run[1])>>
          /\ pc' = "except"
          /\ UNCHANGED <<upload, result>>
    /\ UNCHANGED <<sent, exc, probe, pull, workspace, cleaned, job_request,
                   staging, proc, run, subdirs>>
    /\ Handshake

\* MinerClient.send_finished, after the MachineSpecs message
send_finished(channel, job_result) ==
    send_model(channel, V0FinishedRequest(job_uuid, job_result.stdout, job_result.stderr))

\* send_failed with the job_uuid of the payload in place of self.job_uuid
send_failed_of_payload(channel, job_result) ==
    send_model(channel, V0FailedRequest(full_payload[1].job_uuid, job_result.exit_status,
                                        job_result.timeout, job_result.stdout,
                                        job_result.stderr))

\* MinerClient.send_failed
send_failed(channel, job_result) ==
    send_model(channel, V0FailedRequest(job_uuid, job_result.exit_status,
                                        job_result.timeout, job_result.stdout,
                                        job_result.stderr))

\* lines 461-464 with the MachineSpecs message sent for every result with specs
report_specs_of_any_result ==
    /\ pc = "report"
    /\ IF result[1].specs /= None
       THEN /\ sent' = Append(sent, V0MachineSpecsRequest(job_uuid, result[1].specs))
            /\ pc' \in {"send_finished", "except"}
       ELSE IF result[1].success
       THEN /\ sent' = Append(sent, V0FinishedRequest(job_uuid, result[1].stdout,
                                                       result[1].stderr))
            /\ pc' \in {"clean", "except"}
       ELSE /\ sent' = Append(sent, V0FailedRequest(job_uuid, result[1].exit_status,
                                   result[1].timeout, result[1].stdout, result[1].stderr))
            /\ pc' \in {"clean", "except"}
    /\ UNCHANGED <<exc, probe, pull, workspace, cleaned,
                   job_request, staging, proc, run, upload, result>>
    /\ UNCHANGED <<job_uuid, initial_msg, full_payload, received, deferred, volume_max,
                   relay, output_volume, tasks, initial_msg_lock, full_payload_lock,
                   subdirs>>

\* lines 461-464, up to the first send
report ==
    /\ pc = "report"
    /\ IF result[1].success
       THEN IF result[1].specs /= None
            THEN /\ sent' = send_model(sent, V0MachineSpecsRequest(job_uuid, result[1].specs))
                 /\ pc' \in {"send_finished", "except"}
            ELSE /\ sent' = send_finished(sent, result[1])
                 /\ pc' \in {"clean", "except"}
       ELSE /\ sent' = send_failed(sent, result[1])
            /\ pc' \in {"clean", "except"}
    /\ UNCHANGED <<exc, probe, pull, workspace, cleaned,
                   job_request, staging, proc, run, upload, result>>
    /\ LoopStep

\* lines 131-135: the Finished message that follows MachineSpecs
do_send_finished ==
    /\ pc = "send_finished"
    /\ sent' = send_finished(sent, result[1])
    /\ pc' \in {"clean", "except"}
    /\ UNCHANGED <<exc, probe, pull, workspace, cleaned,
                   job_request, staging, proc, run, upload, result>>
    /\ LoopStep

\* MinerClient.send_generic_error
send_generic_error(channel, details) == send_model(channel, GenericError(details))

\* the except clause with no finally after it
except_without_finally ==
    /\ pc = "except"
    /\ sent' = Append(sent, GenericError("Unexpected error"))
    /\ exc' = "caught"
    /\ pc' = "done"
    /\ UNCHANGED <<probe, pull, workspace, cleaned, job_request, staging, proc,
                   run, upload, result>>
    /\ UNCHANGED <<job_uuid, initial_msg, full_payload, received, deferred, volume_max,
                   relay, output_volume, tasks, initial_msg_lock, full_payload_lock,
                   subdirs>>

\* lines 465-469: except Exception
except ==
    /\ pc = "except"
    /\ sent' = send_generic_error(sent, "Unexpected error")
    /\ exc' = "caught"
    /\ pc' = "clean"
    /\ UNCHANGED <<probe, pull, workspace, cleaned, job_request,
                   staging, proc, run, upload, result>>
    /\ LoopStep

\* clean telling the peer that the workspace could not be removed
clean_reporting_failure ==
    /\ pc = "clean"
    /\ cleaned' = cleaned + 1
    /\ \/ workspace' = "removed" /\ subdirs' = {} /\ UNCHANGED sent
       \/ /\ workspace' = "left"
          /\ sent' = Append(sent, GenericError("Unexpected error"))
          /\ UNCHANGED subdirs
    /\ pc' = "done"
    /\ UNCHANGED <<exc, probe, pull, job_request, staging, proc, run, upload, result>>
    /\ UNCHANGED <<job_uuid, initial_msg, full_payload, received, deferred, volume_max,
                   relay, output_volume, tasks, initial_msg_lock, full_payload_lock>>

\* JobRunner.clean: the privileged delete, then temp_dir.rmdir(), which raises
\* when the delete left something
clean ==
    /\ pc = "clean"
    /\ cleaned' = cleaned + 1
    /\ \/ workspace' = "removed" /\ subdirs' = {}
       \/ workspace' = "left" /\ UNCHANGED subdirs
    /\ pc' = "done"
    /\ UNCHANGED <<sent, exc, probe, pull, job_request, staging, proc, run,
                   upload, result>>
    /\ Handshake
    /\ UNCHANGED output_volume

\* Command._executor_loop, one step
executor_loop ==
    \/ await_initial_msg
    \/ cve_check
    \/ unsafe
    \/ new_job_runner
    \/ do_prepare
    \/ failed_to_prepare
    \/ do_send_ready
    \/ await_full_payload
    \/ run_job
    \/ stream_open
    \/ stream
    \/ chmod
    \/ launch
    \/ communicate
    \/ finish_run
    \/ report
    \/ do_send_finished
    \/ except
    \/ clean

Next ==
    \/ handle_message
    \/ executor_loop

Spec == Init /\ [][Next]_vars

\* the session on an event loop that resumes _executor_loop whenever what it
\* awaits is there: a gate that is filled, a send, a subprocess step that
\* exits or is cut off by its wait_for
SpecLive == Init /\ [][Next]_vars /\ WF_vars(executor_loop)

NextRepeated ==
    \/ handle_repeated_message
    \/ executor_loop

\* the session with a peer that repeats its messages
SpecRepeated == Init /\ [][NextRepeated]_vars

NextRelayed ==
    \/ handle_unrelayed_message
    \/ miner_job_request
    \/ executor_loop

\* the session with the job requests that go through the miner
SpecRelayed == Init /\ [][NextRelayed]_vars

\* lengths of the captured streams, around the threshold and the two cuts
StreamLengths == {0, 1, 100, 101, 205, 999, 1000, 1001, 1205}

\* the character at place i of a captured stream
StreamChar(i) ==
    CASE i % 7 = 0 -> "a" [] i % 7 = 1 -> "b" [] i % 7 = 2 -> "c" [] i % 7 = 3 -> "d"
      [] i % 7 = 4 -> "e" [] i % 7 = 5 -> "f" [] OTHER -> "g"

RECURSIVE StreamPart(_, _)
\* the characters at the places first..last of a captured stream
StreamPart(first, last) ==
    IF first > last THEN ""
    ELSE IF first = last THEN StreamChar(first)
    ELSE LET middle == (first + last) \div 2 IN
         StreamPart(first, middle) \o StreamPart(middle + 1, last)

\* a captured stream of n characters that begins with the given character
Stream(head, n) == head \o StreamPart(2, n)

LongStdouts == {Stream("o", n) : n \in StreamLengths \ {0}} \cup {""}
LongStderrs == {Stream("e", n) : n \in StreamLengths \ {0}} \cup {""}

\* run_job after the wait for the container, the streams captured: the
\* descriptor and the payload were received, the probe passed, Ready was sent,
\* the inline volume is unpacked, the container exited or was killed
InitTruncate ==
    /\ job_uuid = "A"
    /\ initial_msg = <<[kind |-> "V0InitialJobRequest", job_uuid |-> "A",
                        base_docker_image_name |-> None]>>
    /\ \E output_upload \in BOOLEAN :
          full_payload = <<[kind |-> "V0JobRequest", job_uuid |-> "A",
                            docker_image_name |-> "img", raw_script |-> None,
                            docker_run_options_preset |-> "none",
                            volume_type |-> "inline",
                            output_upload |-> output_upload]>>
    /\ received = [n |-> 2, kind |-> "V0JobRequest", job_uuid |-> "A"]
    /\ deferred = <<>>
    /\ sent = <<V0ReadyRequest("A")>>
    /\ volume_max = VolumeCap
    /\ pc = "finish_run"
    /\ exc = ""
    /\ probe = <<[timed_out |-> FALSE, returncode |-> 0, marker |-> TRUE,
                  state |-> "exited"]>>
    /\ pull = <<>>
    /\ workspace = "created"
    /\ cleaned = 0
    /\ job_request = full_payload
    /\ staging = Staged
    /\ \E stdout \in LongStdouts, stderr \in LongStderrs :
          \/ \E returncode \in {0, 1} :
                /\ proc = [state |-> "exited", returncode |-> <<returncode>>,
                           expired |-> FALSE]
                /\ run = <<completed(returncode, stdout, stderr)>>
          \/ /\ proc = kill([state |-> "running", returncode |-> <<>>, expired |-> TRUE])
             /\ run = <<timed_out(stdout, stderr)>>
    /\ upload = "none"
    /\ result = <<>>
    /\ relay = NotRelayed
    /\ output_volume = <<>>
    /\ tasks = <<>>
    /\ initial_msg_lock = 0
    /\ full_payload_lock = 0
    /\ subdirs = bind_mounts(mkdirs({}))

NextTruncate ==
    \/ finish_run
    \/ report
    \/ do_send_finished
    \/ except
    \/ clean

\* the end of run_job and the report, for captured streams of every length
SpecTruncate == InitTruncate /\ [][NextTruncate]_vars

\* ------------------------------------------------------------ the handshake
\* this step handled a message of the kind
Handled(kind) == received'.n = received.n + 1 /\ received'.kind = kind

\* the GenericError messages of deferred with the text
DeferredWith(text) ==
    {i \in 1..Len(deferred) : deferred[i].details.text = text}

\* C1: an InitialJobDescriptor that arrives when initial_msg is done changes
\* neither initial_msg nor job_uuid, and a GenericError naming the stored
\* job_uuid and the new one is handed over for sending; nothing else ever
\* changes the two either.
C1_DuplicateInitialRejected ==
    /\ [][Done(initial_msg) => UNCHANGED <<initial_msg, job_uuid>>]_vars
    /\ [][(Handled("V0InitialJobRequest") /\ Done(initial_msg)) =>
            deferred' = Append(deferred,
                GenericError(DuplicateInitialDetails(job_uuid, received'.job_uuid)))]_vars

\* a duplicate descriptor with another job id was answered, the first is kept
C1_Witness ==
    /\ Done(initial_msg)
    /\ \E i \in DeferredWith("Received duplicate initial job request") :
          /\ deferred[i].details.first = job_uuid
          /\ deferred[i].details.then /= job_uuid
          /\ initial_msg[1].job_uuid = job_uuid

\* C2: a JobPayload that arrives when full_payload is done does not change
\* full_payload (it is dropped), and a GenericError is handed over for sending;
\* nothing else ever changes a stored payload.
C2_DuplicatePayloadRejected ==
    /\ [][Done(full_payload) => UNCHANGED full_payload]_vars
    /\ [][(Handled("V0JobRequest") /\ Done(full_payload)) =>
            deferred' = Append(deferred,
                GenericError(DuplicatePayloadDetails(job_uuid, received'.job_uuid)))]_vars

\* a second payload was answered with the error while the first is stored
C2_Witness ==
    /\ Done(full_payload)
    /\ DeferredWith("Received duplicate full job payload request") /= {}

\* C3: a JobPayload handled while initial_msg is pending leaves full_payload
\* pending and a GenericError is handed over for sending.
C3_PayloadBeforeInitialRejected ==
    [][(Handled("V0JobRequest") /\ ~Done(initial_msg)) =>
        /\ full_payload' = <<>>
        /\ deferred' = Append(deferred,
               GenericError(PayloadBeforeInitialDetails(received'.job_uuid)))]_vars

\* a payload came first and was answered; the descriptor came after it, and
\* the payload slot is still pending
C3_Witness ==
    /\ DeferredWith("Received job request before an initial job request") /= {}
    /\ Done(initial_msg)
    /\ ~Done(full_payload)

\* ------------------------------------------------------------ the outcome
\* the elements of a sequence
Range(seq) == {seq[i] : i \in 1..Len(seq)}

\* the places in sent of the messages of the types
SentOf(types) == {i \in 1..Len(sent) : sent[i].type \in types}

\* Finished, Failed and FailedToPrepare
Outcomes == SentOf({"V0FinishedRequest", "V0FailedRequest", "V0FailedToPrepare"})

\* the loop ended and no exception other than a JobError was raised in it
EndedNormally == pc = "done" /\ exc = ""

\* the loop ran to its end: it returned, or line 465 caught what was raised
LoopEnded == pc = "done" /\ exc /= "propagated"

\* the probe timed out, exited nonzero or did not print the marker
ProbeFailed ==
    /\ probe /= <<>>
    /\ probe[1].timed_out \/ probe[1].returncode /= 0 \/ ~probe[1].marker

\* docker pull of the base image exited nonzero
PullFailed == pull /= <<>> /\ pull[1] /= 0

\* C4, as claimed: when the loop has run to its end, exactly one of Finished,
\* Failed and FailedToPrepare was sent.
C4_ExactlyOneOutcome == LoopEnded => Cardinality(Outcomes) = 1

\* C4, amended: never two of Finished, Failed and FailedToPrepare are sent;
\* exactly one is sent when the loop ends with no exception raised; when none
\* was sent the loop was left by an exception, and if line 465 caught it the
\* last message is the GenericError 'Unexpected error'.
C4_OneOutcomeUnlessException ==
    /\ Cardinality(Outcomes) <= 1
    /\ EndedNormally => Cardinality(Outcomes) = 1
    /\ (pc = "done" /\ Outcomes = {}) =>
          /\ exc /= ""
          /\ exc = "caught" => sent[Len(sent)] = GenericError("Unexpected error")
          /\ exc = "propagated" => sent = <<>>

\* the container ran and ended, an exception followed in run_job, and the
\* session ended with the GenericError alone
C4_Witness ==
    /\ pc = "done"
    /\ proc.state = "exited"
    /\ exc = "caught"
    /\ Outcomes = {}
    /\ SentOf({"GenericError"}) /= {}

\* C5, as claimed: when the loop has run to its end, clean ran exactly once.
C5_CleanedOnce == LoopEnded => cleaned = 1

\* C5, amended: clean never runs twice and never before the end; when the loop
\* has ended it ran exactly once if a workspace was created (success, failure,
\* timeout, pull failure, unhandled fault) and not at all if none was (the
\* probe failed or raised, or mkdtemp raised).
C5_CleanedOnceIfWorkspace ==
    /\ cleaned <= 1
    /\ pc /= "done" => cleaned = 0
    /\ pc = "done" => (cleaned = 1 <=> workspace /= "none")
    /\ ProbeFailed => (cleaned = 0 /\ workspace = "none")
    /\ (PullFailed /\ pc = "done") => cleaned = 1

\* the pull failed, FailedToPrepare was sent and clean ran
C5_Witness ==
    /\ pc = "done"
    /\ pull = <<1>>
    /\ cleaned = 1
    /\ workspace = "removed"
    /\ SentOf({"V0FailedToPrepare"}) /= {}

\* C6: when the probe fails or the pull exits nonzero, FailedToPrepare is sent
\* (it is in sent as soon as the loop is past that send) and the job never
\* runs: no Ready, no payload taken, nothing staged, no container.
C6_FailedToPrepareAndNoRun ==
    (ProbeFailed \/ PullFailed) =>
        /\ pc \notin {"unsafe", "failed_to_prepare"} =>
              SentOf({"V0FailedToPrepare"}) /= {}
        /\ SentOf({"V0ReadyRequest", "V0FinishedRequest", "V0FailedRequest",
                   "V0MachineSpecsRequest"}) = {}
        /\ job_request = <<>>
        /\ staging = NotStaged
        /\ proc = NoProcess
        /\ run = <<>>

\* the probe exited 0 without the marker and the session ended with
\* FailedToPrepare, while a payload was waiting
C6_Witness ==
    /\ pc = "done"
    /\ probe = <<[timed_out |-> FALSE, returncode |-> 0, marker |-> FALSE,
                  state |-> "exited"]>>
    /\ sent = <<V0FailedToPrepare(job_uuid)>>
    /\ Done(full_payload)

\* C7: when the wait for the container expired, the process is killed, the
\* JobResult has timeout TRUE and no exit status, every outcome message is a
\* Failed with timeout TRUE and exit status None, and one is sent when the
\* loop ends with no exception.
C7_TimeoutFailedAndKilled ==
    proc.expired =>
        /\ proc.state = "killed"
        /\ Done(result) =>
              /\ ~result[1].success
              /\ result[1].timeout
              /\ result[1].exit_status = <<>>
        /\ \A i \in Outcomes :
              /\ sent[i].type = "V0FailedRequest"
              /\ sent[i].timeout
              /\ sent[i].docker_process_exit_status = <<>>
        /\ EndedNormally => Outcomes /= {}

\* the wait expired and the session ended with the Failed message
C7_Witness ==
    /\ pc = "done"
    /\ proc.expired
    /\ proc.state = "killed"
    /\ \E i \in SentOf({"V0FailedRequest"}) : sent[i].timeout

\* C8: when the container ended in time and no upload failed, exit code 0 gives
\* Finished and an exit code c other than 0 gives Failed with exit status c and
\* timeout FALSE; the message is sent when the loop ends with no exception.
C8_ExitCodeDecides ==
    (proc.state = "exited" /\ upload /= UploadFailedDescription) =>
        /\ \A i \in Outcomes :
              IF proc.returncode = <<0>>
              THEN sent[i].type = "V0FinishedRequest"
              ELSE /\ sent[i].type = "V0FailedRequest"
                   /\ sent[i].docker_process_exit_status = proc.returncode
                   /\ ~sent[i].timeout
        /\ EndedNormally => Outcomes /= {}

\* the container exited 2, the requested upload went well, Failed carries 2
C8_Witness ==
    /\ pc = "done"
    /\ upload = "ok"
    /\ \E i \in SentOf({"V0FailedRequest"}) :
          sent[i].docker_process_exit_status = <<2>> /\ ~sent[i].timeout

\* the fixed description of a staging fault
StagingFaultDescription ==
    IF staging.raised = "JobError" THEN "Input volume too large"
    ELSE IF staging.raised = "TimeoutError" THEN "Input volume downloading took too long"
    ELSE "Unknown error happened while downloading input volume"

\* C9: after a staging fault (over the cap, the unpack timeout, an unexpected
\* exception) no container is launched, the JobResult and every outcome message
\* is a Failed with the fixed description as stdout and an empty stderr, never
\* the text of the exception, and it is sent when the loop ends normally.
C9_StagingFaultFails ==
    staging.raised \in {"JobError", "TimeoutError", "Exception"} =>
        /\ proc = NoProcess
        /\ run = <<>>
        /\ result = <<JobResult(FALSE, <<>>, FALSE, StagingFaultDescription, "", None)>>
        /\ result[1].stdout /= ExcDetail
        /\ \A i \in Outcomes :
              sent[i] = V0FailedRequest(job_uuid, <<>>, FALSE, StagingFaultDescription, "")
        /\ EndedNormally => Outcomes /= {}

\* an exception while staging, reported as the unknown error
C9_Witness ==
    /\ pc = "done"
    /\ staging.raised = "Exception"
    /\ \E i \in SentOf({"V0FailedRequest"}) :
          sent[i].docker_process_stdout =
              "Unknown error happened while downloading input volume"

\* the response declared a Content-Length above settings.VOLUME_MAX_SIZE_BYTES
DeclaredOversize ==
    staging.content_length /= <<>> /\ staging.content_length[1] > volume_max

\* staging failed with the size-limit error, no chunk read, none written
FailedBeforeBody ==
    /\ staging.raised = "JobError"
    /\ staging.chunks = 0
    /\ staging.bytes_received = 0
    /\ staging.written = 0
    /\ ~staging.extracted
    /\ Done(result) /\ result[1].stdout = "Input volume too large"
    /\ pc \notin {"stream", "chmod", "launch"}

\* C10, as claimed: a declared Content-Length above the configured maximum
\* fails the staging before any chunk is read or written.
C10_DeclaredOversizeFailsEarly == DeclaredOversize => FailedBeforeBody

\* C10, amended: so it is when the configured maximum is positive (a maximum
\* of 0 or less switches the size check off).
C10_DeclaredOversizeFailsEarlyIfCapped ==
    (volume_max > 0 /\ DeclaredOversize) => FailedBeforeBody

\* with a positive maximum, a larger declared length ended the job as Failed
C10_Witness ==
    /\ volume_max > 0
    /\ DeclaredOversize
    /\ FailedBeforeBody
    /\ pc = "done"
    /\ SentOf({"V0FailedRequest"}) /= {}

\* the response had no Content-Length and more bytes than
\* settings.VOLUME_MAX_SIZE_BYTES were received from its body
BodyOversize ==
    staging.content_length = <<>> /\ staging.bytes_received > volume_max

\* staging failed with the size-limit error at the chunk that crossed the
\* maximum: what was written before it is within the maximum, the chunk itself
\* was not written, no chunk is read after it, nothing was extracted
FailedAtCrossingChunk ==
    /\ staging.raised = "JobError"
    /\ staging.written <= volume_max
    /\ staging.written < staging.bytes_received
    /\ staging.bytes_received - staging.written <= MaxChunk
    /\ ~staging.extracted
    /\ Done(result) /\ result[1].stdout = "Input volume too large"
    /\ pc \notin {"stream", "chmod", "launch"}
    /\ proc = NoProcess

\* C11, as claimed: with no Content-Length, a body that exceeds the configured
\* maximum fails the staging at the first chunk that takes the received bytes
\* above it; that chunk is not written, no chunk is read after it and nothing
\* is extracted.
C11_BodyOversizeFailsAtChunk == BodyOversize => FailedAtCrossingChunk

\* C11, amended: so it is when the configured maximum is positive, and then
\* the download has ended for good (nothing of it changes any more).
C11_BodyOversizeFailsAtChunkIfCapped ==
    /\ (volume_max > 0 /\ BodyOversize) => FailedAtCrossingChunk
    /\ staging.written <= staging.bytes_received
    /\ (volume_max > 0 /\ staging.content_length = <<>>) => staging.written <= volume_max

\* with a positive maximum and no Content-Length, one chunk was written and
\* the second one crossed the maximum; the job ended as Failed
C11_Witness ==
    /\ volume_max > 0
    /\ BodyOversize
    /\ FailedAtCrossingChunk
    /\ staging.chunks = 2
    /\ staging.written > 0
    /\ pc = "done"
    /\ SentOf({"V0FailedRequest"}) /= {}

\* the payload names an image or carries a script
HasImageOrScript(req) ==
    \/ req.docker_image_name /= None /\ req.docker_image_name /= ""
    \/ req.raw_script /= None /\ req.raw_script /= ""

\* the payload has no image and no script at all
HasNeither(req) == req.docker_image_name = None /\ req.raw_script \in {None, ""}

C13_UnexpectedErrorReported ==
    (pc = "done" /\ exc /= "") => GenericError("Unexpected error") \in Range(sent)

\* C13, for the steps inside the try of line 444 (prepare, the sends, run_job):
\* the exception is caught, the GenericError sent carries the fixed text, and
\* no GenericError with any other details is ever sent by the loop.
C13_CaughtInsideTry ==
    /\ exc = "caught" => GenericError("Unexpected error") \in Range(sent)
    /\ \A i \in SentOf({"GenericError"}) : sent[i].details = "Unexpected error"
    /\ (exc = "propagated" /\ pc = "done") => (workspace = "none" /\ cleaned = 0)

\* the probe passed, an exception in prepare was caught and reported
C13_Witness ==
    /\ pc = "done"
    /\ exc = "caught"
    /\ SentOf({"V0ReadyRequest"}) = {}
    /\ sent = <<GenericError("Unexpected error")>>

\* what the response carries of a captured stream, as C14 states it
Shortened(captured) ==
    IF Len(captured) <= 1000
    THEN captured
    ELSE SubSeq(captured, 1, 100) \o " ... "
         \o SubSeq(captured, Len(captured) - 99, Len(captured))

C15_UploadFailureFails ==
    upload = UploadFailedDescription =>
        /\ job_request[1].output_upload
        /\ Done(result)
        /\ ~result[1].success
        /\ result[1].stdout = UploadFailedDescription
        /\ result[1].stderr = ""
        /\ SentOf({"V0FinishedRequest", "V0MachineSpecsRequest"}) = {}
        /\ \A i \in Outcomes :
              /\ sent[i].type = "V0FailedRequest"
              /\ sent[i].docker_process_stdout = UploadFailedDescription
              /\ sent[i].docker_process_stderr = ""
        /\ EndedNormally => Outcomes /= {}

\* the container exited 0, the upload failed, the session ended with Failed
C15_Witness ==
    /\ pc = "done"
    /\ proc.state = "exited" /\ proc.returncode = <<0>>
    /\ upload = UploadFailedDescription
    /\ \E i \in SentOf({"V0FailedRequest"}) :
          /\ sent[i].docker_process_stdout = UploadFailedDescription
          /\ sent[i].docker_process_exit_status = <<0>>

\* run_job was given a payload with a valid preset whose volume type is
\* neither inline nor zip_url, and is past the call of unpack_volume
UnknownVolumeTypeStaged ==
    /\ Done(job_request)
    /\ job_request[1].volume_type \notin {"inline", "zip_url"}
    /\ job_request[1].docker_run_options_preset \in {"none", "nvidia_all"}
    /\ pc /= "run_job"

\* C16, as claimed: a volume type that is neither inline nor zip_url does not
\* become a Failed outcome; it reaches the handler of line 465, which sends
\* the GenericError.
C16_UnknownVolumeTypeIsHardFault ==
    UnknownVolumeTypeStaged =>
        /\ SentOf({"V0FailedRequest"}) = {}
        /\ result = <<>>
        /\ pc = "done" => (exc = "caught" /\ SentOf({"GenericError"}) /= {})

\* C16, amended: the NotImplementedError of such a volume type is wrapped by
\* unpack_volume like any unexpected staging exception: run_job returns the
\* failure with the unknown-error description as stdout and an empty stderr,
\* no container is launched, every outcome message is that Failed, and it is
\* sent when the loop ends with no exception; the text of the
\* NotImplementedError is not passed on.
C16_UnknownVolumeTypeFailsJob ==
    UnknownVolumeTypeStaged =>
        /\ staging.raised = "NotImplementedError"
        /\ proc = NoProcess
        /\ run = <<>>
        /\ result = <<JobResult(FALSE, <<>>, FALSE,
                        "Unknown error happened while downloading input volume", "", None)>>
        /\ \A i \in Outcomes :
              sent[i] = V0FailedRequest(job_uuid, <<>>, FALSE,
                            "Unknown error happened while downloading input volume", "")
        /\ EndedNormally => Outcomes /= {}
        /\ exc = "" => SentOf({"GenericError"}) = {}

\* a payload of another volume type ended the session with Failed alone
C16_Witness ==
    /\ UnknownVolumeTypeStaged
    /\ pc = "done"
    /\ exc = ""
    /\ SentOf({"V0FailedRequest"}) /= {}
    /\ SentOf({"GenericError"}) = {}

\* the first place in sent of a message of the types, 0 when there is none
FirstSent(types) ==
    IF SentOf(types) = {} THEN 0
    ELSE CHOOSE i \in SentOf(types) : \A j \in SentOf(types) : i <= j

\* Ready was sent
ReadySent == SentOf({"V0ReadyRequest"}) /= {}

OutcomeSent ==
    /\ sent /= <<>>
    /\ sent[Len(sent)].type \in {"V0FinishedRequest", "V0FailedRequest",
                                  "V0FailedToPrepare", "GenericError"}

\* C18: clean starts only when the outcome message (Finished, Failed,
\* FailedToPrepare or the GenericError of the exception handler) has been
\* sent; the step of clean, failing or not, sends nothing and changes nothing
\* of what was sent, and nothing is sent after it.
C18_CleanupAfterOutcome ==
    /\ []((pc = "clean" \/ cleaned > 0) => OutcomeSent)
    /\ [](workspace \in {"removed", "left"} <=> cleaned = 1)
    /\ [][cleaned' /= cleaned => (pc = "clean" /\ OutcomeSent /\ sent' = sent)]_vars
    /\ [][cleaned > 0 => sent' = sent]_vars

\* Finished was sent, then clean could not remove the workspace; Finished is
\* still the last message
C18_Witness ==
    /\ pc = "done"
    /\ cleaned = 1
    /\ workspace = "left"
    /\ sent /= <<>>
    /\ sent[Len(sent)].type = "V0FinishedRequest"

\* the overlapping calls for a message of the kind that are past their lock
Entered(kind) ==
    {i \in 1..Len(tasks) : tasks[i].msg.kind = kind /\ tasks[i].at /= "acquire"}

\* the calls suspended inside the region of full_payload_lock
InsidePayloadRegion == {i \in 1..Len(tasks) : tasks[i].at = "deferred_send_model"}

\* 1 for a gate that is filled, 0 for a pending one
Filled(gate) == IF Done(gate) THEN 1 ELSE 0

\* C19: whatever the interleaving of the overlapping calls of handle_message,
\* a gate that is filled never changes again, its value is the message of a
\* call that has run, every other call that got past its lock handed over an
\* error (for the descriptor the duplicate error, which names the job id that
\* was kept), at most one call is inside the region of full_payload_lock, the
\* lock of the descriptor is never held across an await, and while a call is
\* unfinished some call can run: a waiting call waits only for a holder that
\* is at its await.
C19_FirstWriterWinsNoDeadlock ==
    /\ [][Done(initial_msg) => UNCHANGED <<initial_msg, job_uuid>>]_vars
    /\ [][Done(full_payload) => UNCHANGED full_payload]_vars
    /\ [](Done(initial_msg) =>
            /\ job_uuid = initial_msg[1].job_uuid
            /\ \E i \in Entered("V0InitialJobRequest") : tasks[i].msg = initial_msg[1])
    /\ [](Done(full_payload) =>
            \E i \in Entered("V0JobRequest") : tasks[i].msg = full_payload[1])
    /\ [](Cardinality(Entered("V0InitialJobRequest")) =
            Filled(initial_msg)
            + Cardinality(DeferredWith("Received duplicate initial job request")))
    /\ [](Cardinality(Entered("V0JobRequest")) =
            Filled(full_payload)
            + Cardinality(DeferredWith("Received duplicate full job payload request"))
            + Cardinality(DeferredWith("Received job request before an initial job request")))
    /\ [](\A i \in DeferredWith("Received duplicate initial job request") :
            deferred[i].details.first = job_uuid)
    /\ [](Cardinality(InsidePayloadRegion) <= 1)
    /\ [](InsidePayloadRegion = IF full_payload_lock = 0 THEN {} ELSE {full_payload_lock})
    /\ [](initial_msg_lock = 0)
    /\ []((\E i \in 1..Len(tasks) : tasks[i].at /= "done") => ENABLED resume)

\* a payload that came before the descriptor is at its await and holds the
\* lock, a second payload waits for the lock, and the descriptor was stored
\* meanwhile under its own lock
C19_Witness ==
    /\ full_payload_lock /= 0
    /\ tasks[full_payload_lock].at = "deferred_send_model"
    /\ \E j \in 1..Len(tasks) :
          tasks[j].msg.kind = "V0JobRequest" /\ tasks[j].at = "acquire"
    /\ Done(initial_msg)
    /\ ~Done(full_payload)
    /\ DeferredWith("Received job request before an initial job request") /= {}

\* C20: after the timer of the probe, of the staging or of the job has
\* expired, what it waited for no longer runs: the probe process is not
\* running, the download is no longer in progress, the job process was
\* killed.
C20_TimeoutsTerminate ==
    /\ (Done(probe) /\ probe[1].timed_out) => probe[1].state /= "running"
    /\ staging.raised = "TimeoutError" => pc \notin {"stream_open", "stream", "chmod"}
    /\ proc.expired => proc.state = "killed"

\* C20, for the staging and the job: the download is over once its wait
\* expired and the job process is killed once its wait expired; every probe
\* whose wait expired is left running.
C20_StagingAndJobTerminate ==
    /\ staging.raised = "TimeoutError" =>
          /\ pc \notin {"stream_open", "stream", "chmod", "launch", "communicate"}
          /\ proc = NoProcess
    /\ proc.expired => proc.state = "killed"
    /\ (Done(probe) /\ probe[1].timed_out) => probe[1].state = "running"

\* the wait for the probe expired, FailedToPrepare was sent and the loop
\* returned; the probe process still runs
C20_Witness ==
    /\ pc = "done"
    /\ Done(probe)
    /\ probe[1].timed_out
    /\ probe[1].state = "running"
    /\ sent = <<V0FailedToPrepare(job_uuid)>>

\* prepare has returned without a JobError and clean has not run
PreparedNotCleaned ==
    /\ pc \in {"send_ready", "await_full_payload", "run_job", "stream_open", "stream",
                "chmod", "launch", "communicate", "finish_run", "report",
                "send_finished"}
    /\ cleaned = 0

\* C21: from the successful return of prepare until cleanup, volume/, output/
\* and specs/ exist in the workspace.
C21_ThreeSubdirectories ==
    PreparedNotCleaned => {"volume", "output", "specs"} \subseteq subdirs

\* C21, as far as it holds: volume/ and output/ exist from the successful
\* return of prepare until cleanup; specs/ is there only once docker run was
\* started with its bind mounts.
C21_TwoSubdirectories ==
    /\ PreparedNotCleaned => {"volume", "output"} \subseteq subdirs
    /\ (PreparedNotCleaned /\ proc = NoProcess) => "specs" \notin subdirs
    /\ workspace = "none" => subdirs = {}

\* Ready was sent and the loop waits for the payload; there is no specs/
C21_Witness ==
    /\ pc = "await_full_payload"
    /\ ReadySent
    /\ workspace = "created"
    /\ subdirs = {"volume", "output"}

\* every MachineSpecs message is that of a successful result with specs
SpecsOnlyOfSuccess ==
    \A i \in SentOf({"V0MachineSpecsRequest"}) :
        /\ Done(result)
        /\ result[1].success
        /\ result[1].specs /= None
        /\ sent[i] = V0MachineSpecsRequest(job_uuid, result[1].specs)

\* C22, as claimed: a MachineSpecs message is that of a successful job with a
\* specs report, the next message is the Finished of the job (it is there
\* when the loop has ended), and no Failed, FailedToPrepare or GenericError is
\* sent in a session with a MachineSpecs message.
C22_SpecsThenFinished ==
    /\ SpecsOnlyOfSuccess
    /\ \A i \in SentOf({"V0MachineSpecsRequest"}) :
          /\ i < Len(sent) => sent[i + 1].type = "V0FinishedRequest"
          /\ pc = "done" => i < Len(sent)
    /\ SentOf({"V0MachineSpecsRequest"}) /= {} =>
          SentOf({"V0FailedRequest", "V0FailedToPrepare", "GenericError"}) = {}

\* C22, amended: a MachineSpecs message is that of a successful job with a
\* specs report and there is at most one; no Failed and no FailedToPrepare is
\* sent in its session; the next message is the Finished of the job, or, when
\* a send raised after MachineSpecs was handed over, the GenericError of the
\* exception handler; a successful job with no specs report gets its Finished
\* with no MachineSpecs and no error.
C22_SpecsThenFinishedUnlessSendFails ==
    /\ SpecsOnlyOfSuccess
    /\ Cardinality(SentOf({"V0MachineSpecsRequest"})) <= 1
    /\ \A i \in SentOf({"V0MachineSpecsRequest"}) :
          /\ i < Len(sent) =>
                \/ sent[i + 1].type = "V0FinishedRequest"
                \/ sent[i + 1] = GenericError("Unexpected error") /\ exc = "caught"
          /\ pc = "done" => i < Len(sent)
          /\ EndedNormally => sent[i + 1].type = "V0FinishedRequest"
    /\ SentOf({"V0MachineSpecsRequest"}) /= {} =>
          SentOf({"V0FailedRequest", "V0FailedToPrepare"}) = {}
    /\ \A i \in SentOf({"V0FinishedRequest"}) :
          IF result[1].specs /= None
          THEN i > 1 /\ sent[i - 1].type = "V0MachineSpecsRequest"
          ELSE SentOf({"V0MachineSpecsRequest"}) = {}
    /\ (EndedNormally /\ Done(result) /\ result[1].success /\ result[1].specs = None) =>
          /\ SentOf({"V0FinishedRequest"}) /= {}
          /\ SentOf({"GenericError", "V0MachineSpecsRequest"}) = {}

\* a job with a specs report ended with Ready, MachineSpecs, Finished
C22_Witness ==
    /\ pc = "done"
    /\ exc = ""
    /\ Len(sent) = 3
    /\ sent[2].type = "V0MachineSpecsRequest"
    /\ sent[3].type = "V0FinishedRequest"

\* the payload the loop took has a preset that is not a recognized name
InvalidPresetTaken ==
    /\ job_request /= <<>>
    /\ job_request[1].docker_run_options_preset \notin {"none", "nvidia_all"}

\* C23: when the payload's preset is not a recognized name, the volume is
\* never staged (no response, no byte, no extraction, no staging fault), no
\* container is launched, run_job returns the failure result whose stdout
\* names the preset, with stderr empty, exit status null and timeout false,
\* the only outcome message is the Failed message of that result (or the
\* GenericError of a send that raised), and a loop that ends normally has
\* sent the Failed message.
C23_InvalidPresetFailsFirst ==
    InvalidPresetTaken =>
        LET preset == job_request[1].docker_run_options_preset
            failure == JobResult(FALSE, <<>>, FALSE, "Invalid preset: " \o preset, "", None) IN
        /\ staging = NotStaged
        /\ proc = NoProcess
        /\ pc \notin {"stream_open", "stream", "chmod", "launch", "communicate", "kill",
                       "finish_run", "send_finished"}
        /\ Done(result) => result[1] = failure
        /\ pc \in {"report", "clean", "done"} => Done(result)
        /\ \A i \in SentOf({"V0FailedRequest"}) :
              sent[i] = V0FailedRequest(job_uuid, <<>>, FALSE, "Invalid preset: " \o preset, "")
        /\ SentOf({"V0FinishedRequest", "V0MachineSpecsRequest", "V0FailedToPrepare"}) = {}
        /\ EndedNormally => SentOf({"V0FailedRequest"}) /= {}

\* a session with the preset "bogus" ended with Ready and the Failed message
C23_Witness ==
    /\ InvalidPresetTaken
    /\ EndedNormally
    /\ Len(sent) = 2
    /\ sent[2] = V0FailedRequest(job_uuid, <<>>, FALSE, "Invalid preset: bogus", "")

\* ------------------------------------------------------------ the job_uuid
\* the messages that name a job
JobMessages ==
    SentOf({"V0ReadyRequest", "V0MachineSpecsRequest", "V0FinishedRequest",
            "V0FailedRequest", "V0FailedToPrepare"})

\* job_uuid is None until the first descriptor, then the job_uuid of that
\* descriptor, and every message that names a job names that one
UuidOfDescriptor ==
    /\ job_uuid = None <=> ~Done(initial_msg)
    /\ Done(initial_msg) => job_uuid = initial_msg[1].job_uuid
    /\ \A i \in JobMessages : Done(initial_msg) /\ sent[i].job_uuid = initial_msg[1].job_uuid

\* a step writes job_uuid only when it is None, with the job_uuid of the
\* descriptor it handles, and never changes initial_msg once it is done
UuidWrittenOnce ==
    /\ job_uuid' /= job_uuid =>
          /\ job_uuid = None
          /\ Handled("V0InitialJobRequest")
          /\ job_uuid' = received'.job_uuid
    /\ Done(initial_msg) => initial_msg' = initial_msg

\* a payload handled after the descriptor, when none is stored, is stored
\* and no error is handed over, whatever its job_uuid
PayloadUuidNotCompared ==
    (Handled("V0JobRequest") /\ Done(initial_msg) /\ ~Done(full_payload)) =>
        /\ Done(full_payload')
        /\ full_payload'[1].job_uuid = received'.job_uuid
        /\ deferred' = deferred
        /\ job_uuid' = job_uuid

\* C24: job_uuid is written once, from the first descriptor, and never
\* changes; a payload is stored whatever job_uuid it carries; every Ready,
\* MachineSpecs, Finished, Failed and FailedToPrepare message carries the
\* descriptor's job_uuid.
C24_UuidOfFirstDescriptor ==
    /\ []UuidOfDescriptor
    /\ [][UuidWrittenOnce /\ PayloadUuidNotCompared]_vars

\* the descriptor named job B, the payload named job A, and the session's
\* Ready and Failed messages name job B
C24_Witness ==
    /\ EndedNormally
    /\ Done(initial_msg) /\ Done(full_payload)
    /\ initial_msg[1].job_uuid = "B"
    /\ full_payload[1].job_uuid = "A"
    /\ Len(sent) = 2
    /\ sent[1].type = "V0ReadyRequest" /\ sent[1].job_uuid = "B"
    /\ sent[2].type = "V0FailedRequest" /\ sent[2].job_uuid = "B"

\* ------------------------------------------------------------ the events of the executor
\* the handler of ValidatorInterfaceMixin for the kind of a publication
HandlerOfKind(kind) == "executor_" \o kind

\* the event of the place was sent to the group of its publisher's token and
\* handled by the consumer of that token
ToGroupOfToken(h) ==
    /\ relay.events[h.of].group = "validator_interface_" \o relay.published[h.of].token
    /\ h.consumer = relay.published[h.of].token

\* C25, as claimed: every published event goes to the validator-interface
\* group of its token and is handled by the handler of its kind; the event
\* of a failed job is handled by executor_failed, never by executor_finished.
C25_DispatchedToSameKind ==
    \A i \in 1..Len(relay.handled) :
        LET h == relay.handled[i] IN
        /\ ToGroupOfToken(h)
        /\ h.handler = HandlerOfKind(relay.published[h.of].kind)
        /\ relay.published[h.of].kind = "failed" => h.handler /= "executor_finished"

\* what holds: the group is that of the token, every event but that of a
\* failed job is handled by the handler of its kind, and the event of a
\* failed job is handled by executor_finished, which calls _executor_finished
\* with the streams and without the exit status
C25_FailedDispatchedAsFinished ==
    \A i \in 1..Len(relay.handled) :
        LET h == relay.handled[i]
            kind == relay.published[h.of].kind IN
        /\ ToGroupOfToken(h)
        /\ kind /= "failed" => h.handler = HandlerOfKind(kind)
        /\ kind = "failed" =>
              /\ h.handler = "executor_finished"
              /\ Len(h.calls) = 1
              /\ h.calls[1].method = "_executor_finished"
              /\ DOMAIN h.calls[1].msg = ModelFields("ExecutorFinished")

\* the event of a failed job with exit status 1 was handled
C25_Witness ==
    /\ Len(relay.handled) = 1
    /\ relay.published[1].kind = "failed"
    /\ relay.events[1].event.docker_process_exit_status = <<1>>
    /\ relay.handled[1].calls /= <<>>

\* ------------------------------------------------------------ the timeout flag
\* timeout and exit status are those of the container process: timeout
\* exactly when the wait for it expired, and then no exit status; no exit
\* status and no timeout when no container was launched; else the exit
\* status is the return code of the process
FlagsOfProcess(timeout, exit_status) ==
    /\ timeout <=> proc.expired
    /\ timeout => exit_status = <<>>
    /\ proc.state = "none" => ~timeout /\ exit_status = <<>>
    /\ (proc.state /= "none" /\ ~proc.expired) => exit_status = proc.returncode

\* C26: in every JobResult and every Failed message timeout is true exactly
\* when the wait for the job container expired, and the exit status is then
\* null; a result made before the launch (staging timeout, invalid preset,
\* oversize volume, other staging fault) has timeout false and exit status
\* null; Finished is sent only for exit status 0 and timeout false.
C26_TimeoutFlagExact ==
    /\ Done(result) => FlagsOfProcess(result[1].timeout, result[1].exit_status)
    /\ \A i \in SentOf({"V0FailedRequest"}) :
          FlagsOfProcess(sent[i].timeout, sent[i].docker_process_exit_status)
    /\ (Done(result) /\ staging.raised /= "ok") => proc.state = "none"
    /\ (Done(result) /\ InvalidPresetTaken) => proc.state = "none"
    /\ SentOf({"V0FinishedRequest"}) /= {} =>
          /\ Done(result)
          /\ result[1].exit_status = <<0>>
          /\ ~result[1].timeout
          /\ proc.returncode = <<0>>
          /\ ~proc.expired

\* the wait for the container expired and the session sent Failed with
\* timeout true and no exit status
C26_Witness ==
    /\ EndedNormally
    /\ proc.expired
    /\ \E i \in SentOf({"V0FailedRequest"}) :
          sent[i].timeout /\ sent[i].docker_process_exit_status = <<>>

\* a staging timeout made the session send Failed with timeout false
C26_WitnessStagingTimeout ==
    /\ EndedNormally
    /\ staging.raised = "TimeoutError"
    /\ \E i \in SentOf({"V0FailedRequest"}) :
          ~sent[i].timeout /\ sent[i].docker_process_exit_status = <<>>

\* ------------------------------------------------------------ progress
\* the loop stands at line 457 and no payload is stored
WaitsForPayload == pc = "await_full_payload" /\ ~Done(full_payload)

\* nothing of the loop moves while it waits for the payload: Ready is the
\* last message, the workspace is there, clean has not run, no step of the
\* loop is enabled, and a step taken meanwhile leaves the loop where it is
WaitHasNoTimeout ==
    /\ [](WaitsForPayload =>
            /\ workspace = "created"
            /\ cleaned = 0
            /\ sent /= <<>> /\ sent[Len(sent)].type = "V0ReadyRequest"
            /\ ~ENABLED executor_loop)
    /\ [][WaitsForPayload =>
            /\ pc' = pc
            /\ workspace' = workspace
            /\ cleaned' = cleaned
            /\ sent' = sent]_vars
    /\ [][(pc = "await_full_payload" /\ pc' /= pc) =>
            (Done(full_payload) /\ pc' = "run_job")]_vars

\* C27, as claimed: when no exception leaves the loop and a payload is
\* stored, the session eventually has sent its terminal message and the
\* workspace is gone; and the wait for the payload has no timeout.
C27_TerminalThenDestroyed ==
    /\ ([](exc /= "propagated") /\ <>Done(full_payload)) =>
          <>(pc = "done" /\ OutcomeSent /\ workspace \in {"none", "removed"})
    /\ WaitHasNoTimeout

\* C27, amended: once a payload is stored the loop eventually ends; unless an
\* exception left it outside the try, its terminal message is then sent and,
\* if a workspace was made, clean has run once, having removed the workspace
\* or failed to; and the wait for the payload has no timeout.
C27_TerminalThenCleanup ==
    /\ Done(full_payload) ~>
          /\ pc = "done"
          /\ \/ exc = "propagated" /\ workspace = "none"
             \/ /\ OutcomeSent
                /\ \/ workspace = "none" /\ cleaned = 0
                   \/ workspace \in {"removed", "left"} /\ cleaned = 1
    /\ WaitHasNoTimeout

\* a session whose payload was stored and run has ended with Finished sent
\* and the workspace removed
C27_Witness ==
    /\ pc = "done"
    /\ Done(full_payload) /\ Done(result)
    /\ sent /= <<>> /\ sent[Len(sent)].type = "V0FinishedRequest"
    /\ cleaned = 1
    /\ workspace = "removed"

\* Ready was sent and the loop waits for a payload that is not there
C27_WitnessWaiting ==
    /\ WaitsForPayload
    /\ received.n = MaxInbound
    /\ workspace = "created"

====
